---- MODULE Spec2Model ----
(***************************************************************************)
(* The scam honeypot service of src/app.py: the /honeypot request handler, *)
(* the scam classifier, the staged reply generator with credential         *)
(* rotation, the fallback pools and the callback schedule.                 *)
(*                                                                         *)
(* Strings are sequences of one-character strings, so that lower(),        *)
(* upper(), strip(), split(), replace() and the substring test `in` are    *)
(* computed as Python computes them.                                       *)
(***************************************************************************)
EXTENDS Integers, Sequences, FiniteSets, TLC

\* sessions            the dict `sessions`, by session id
\* audit               what was observed of each session (calls made for it)
\* current_key_index   the global index into ALL_GEMINI_KEYS
\* num_keys            len(ALL_GEMINI_KEYS)
\* coroutines          the honeypot_endpoint coroutines handled concurrently,
\*                     by request number: the request and the position
\*                     ("await_body": suspended at `await request.json()`)
\* last                the operation that ran last and what it returned
VARIABLES sessions, audit, current_key_index, num_keys, coroutines, last

vars == <<sessions, audit, current_key_index, num_keys, coroutines, last>>

----------------------------------------------------------------------------
(* Python string operations used by the handler                            *)

UpperLetters ==
  <<"A","B","C","D","E","F","G","H","I","J","K","L","M",
    "N","O","P","Q","R","S","T","U","V","W","X","Y","Z">>

LowerLetters ==
  <<"a","b","c","d","e","f","g","h","i","j","k","l","m",
    "n","o","p","q","r","s","t","u","v","w","x","y","z">>

\* the letter of `into` at the position c has in `from`, c itself otherwise
map_char(from, into, c) ==
  LET at == {k \in DOMAIN from : from[k] = c}
  IN  IF at = {} THEN c ELSE into[CHOOSE k \in at : TRUE]

\* str.lower(), character by character
str_lower(s) == [i \in 1..Len(s) |-> map_char(UpperLetters, LowerLetters, s[i])]

\* str.upper(), character by character
str_upper(s) == [i \in 1..Len(s) |-> map_char(LowerLetters, UpperLetters, s[i])]

IsSpace(c) == c \in {" ", "\t", "\n", "\r"}

\* str.strip(): drop leading and trailing whitespace
str_strip(s) ==
  LET keep == {i \in 1..Len(s) : ~IsSpace(s[i])}
  IN  IF keep = {} THEN <<>>
      ELSE SubSeq(s, CHOOSE i \in keep : \A j \in keep : i <= j,
                     CHOOSE i \in keep : \A j \in keep : i >= j)

\* len(s.split()): the number of maximal runs of non-whitespace
str_split_len(s) ==
  Cardinality({i \in 1..Len(s) :
                 /\ ~IsSpace(s[i])
                 /\ (i = 1 \/ IsSpace(s[i-1]))})

\* s.replace(c, ''): delete every occurrence of the character c
str_remove(s, c) == SelectSeq(s, LAMBDA x : x # c)

\* k in s: k occurs in s as a contiguous substring
str_in(k, s) ==
  \E i \in 1..(Len(s) - Len(k) + 1) : \A j \in 1..Len(k) : s[i + j - 1] = k[j]

----------------------------------------------------------------------------
(* Lexicon and fallback pools, verbatim from the source                    *)

SCAM_KEYWORDS ==
  << <<"u","r","g","e","n","t">>,
     <<"b","l","o","c","k","e","d">>,
     <<"v","e","r","i","f","y">>,
     <<"s","u","s","p","e","n","d","e","d">>,
     <<"a","c","c","o","u","n","t">>,
     <<"u","p","i">>,
     <<"s","e","n","d"," ","m","o","n","e","y">>,
     <<"c","l","i","c","k"," ","h","e","r","e">>,
     <<"e","x","p","i","r","e">>,
     <<"p","r","i","z","e">>,
     <<"w","i","n","n","e","r">>,
     <<"l","o","t","t","e","r","y">>,
     <<"o","t","p">>,
     <<"p","a","s","s","w","o","r","d">>,
     <<"w","o","n">>,
     <<"w","i","n","n","i","n","g">>,
     <<"l","u","c","k","y"," ","d","r","a","w">>,
     <<"c","o","n","g","r","a","t","u","l","a","t","i","o","n","s">>,
     <<"s","e","l","e","c","t","e","d">>,
     <<"c","h","o","s","e","n">>,
     <<"r","e","w","a","r","d">>,
     <<"g","i","f","t">>,
     <<"j","a","c","k","p","o","t">>,
     <<"b","u","m","p","e","r"," ","p","r","i","z","e">>,
     <<"c","a","s","h"," ","p","r","i","z","e">>,
     <<"l","u","c","k","y"," ","w","i","n","n","e","r">>,
     <<"i","m","m","e","d","i","a","t","e","l","y">>,
     <<"d","e","a","d","l","i","n","e">>,
     <<"t","o","d","a","y"," ","o","n","l","y">>,
     <<"l","a","s","t"," ","c","h","a","n","c","e">>,
     <<"w","a","r","n","i","n","g">>,
     <<"a","l","e","r","t">>,
     <<"n","o","t","i","c","e">>,
     <<"a","t","t","e","n","t","i","o","n">>,
     <<"a","c","t"," ","n","o","w">>,
     <<"d","e","a","c","t","i","v","a","t","e","d">>,
     <<"e","x","p","i","r","y">>,
     <<"l","i","m","i","t","e","d"," ","t","i","m","e">>,
     <<"t","r","a","n","s","f","e","r">>,
     <<"d","e","p","o","s","i","t">>,
     <<"p","a","y","m","e","n","t"," ","r","e","q","u","i","r","e","d">>,
     <<"v","e","r","i","f","i","c","a","t","i","o","n"," ","f","e","e">>,
     <<"p","r","o","c","e","s","s","i","n","g"," ","f","e","e">>,
     <<"r","e","g","i","s","t","r","a","t","i","o","n"," ","f","e","e">>,
     <<"c","u","s","t","o","m","s"," ","d","u","t","y">>,
     <<"t","a","x"," ","p","a","y","m","e","n","t">>,
     <<"a","d","v","a","n","c","e"," ","f","e","e">>,
     <<"r","e","f","u","n","d"," ","p","e","n","d","i","n","g">>,
     <<"c","a","s","h","b","a","c","k">>,
     <<"p","o","l","i","c","e">>,
     <<"c","o","u","r","t">>,
     <<"a","r","r","e","s","t">>,
     <<"w","a","r","r","a","n","t">>,
     <<"l","e","g","a","l"," ","a","c","t","i","o","n">>,
     <<"c","y","b","e","r"," ","c","e","l","l">>,
     <<"c","b","i">>,
     <<"i","n","c","o","m","e"," ","t","a","x">>,
     <<"i","t"," ","d","e","p","a","r","t","m","e","n","t">>,
     <<"g","o","v","e","r","n","m","e","n","t"," ","s","c","h","e","m","e">>,
     <<"p","m"," ","s","c","h","e","m","e">>,
     <<"r","b","i">>,
     <<"s","e","b","i">>,
     <<"k","y","c">>,
     <<"k","y","c"," ","u","p","d","a","t","e">>,
     <<"k","y","c"," ","e","x","p","i","r","e","d">>,
     <<"a","a","d","h","a","a","r">>,
     <<"a","a","d","h","a","r">>,
     <<"p","a","n"," ","c","a","r","d">>,
     <<"s","h","a","r","e"," ","o","t","p">>,
     <<"v","e","r","i","f","y"," ","o","t","p">>,
     <<"p","i","n">>,
     <<"c","v","v">>,
     <<"p","a","y","t","m">>,
     <<"p","h","o","n","e","p","e">>,
     <<"g","p","a","y">>,
     <<"g","o","o","g","l","e"," ","p","a","y">>,
     <<"b","h","i","m">>,
     <<"n","e","f","t">>,
     <<"i","m","p","s">>,
     <<"r","t","g","s">>,
     <<"s","i","m"," ","b","l","o","c","k","e","d">>,
     <<"s","i","m"," ","c","a","r","d">>,
     <<"j","i","o">>,
     <<"a","i","r","t","e","l">>,
     <<"b","s","n","l">>,
     <<"f","r","e","e"," ","r","e","c","h","a","r","g","e">>,
     <<"t","a","l","k","t","i","m","e">>,
     <<"j","o","b"," ","o","f","f","e","r">>,
     <<"w","o","r","k"," ","f","r","o","m"," ","h","o","m","e">>,
     <<"p","a","r","t"," ","t","i","m","e"," ","j","o","b">>,
     <<"e","a","r","n"," ","d","a","i","l","y">>,
     <<"g","u","a","r","a","n","t","e","e","d"," ","r","e","t","u","r","n","s">>,
     <<"d","o","u","b","l","e"," ","y","o","u","r"," ","m","o","n","e","y">>,
     <<"t","r","a","d","i","n","g"," ","p","r","o","f","i","t">>,
     <<"p","a","r","c","e","l"," ","s","t","u","c","k">>,
     <<"p","a","c","k","a","g","e"," ","h","e","l","d">>,
     <<"c","u","s","t","o","m","s"," ","c","l","e","a","r","a","n","c","e">>,
     <<"d","e","l","i","v","e","r","y"," ","f","e","e">>,
     <<"a","m","a","z","o","n"," ","o","f","f","e","r">>,
     <<"f","l","i","p","k","a","r","t"," ","w","i","n","n","e","r">>,
     <<"i","n","s","u","r","a","n","c","e"," ","m","a","t","u","r","i","t","y">>,
     <<"l","i","c"," ","p","o","l","i","c","y">>,
     <<"p","o","l","i","c","y"," ","b","o","n","u","s">>,
     <<"p","f"," ","w","i","t","h","d","r","a","w","a","l">>,
     <<"p","r","o","v","i","d","e","n","t"," ","f","u","n","d">>,
     <<"l","o","a","n"," ","a","p","p","r","o","v","e","d">>,
     <<"p","r","e","-","a","p","p","r","o","v","e","d"," ","l","o","a","n">>,
     <<"c","r","e","d","i","t"," ","c","a","r","d"," ","o","f","f","e","r">>,
     <<"c","l","i","c","k"," ","t","h","e"," ","l","i","n","k">>,
     <<"v","i","s","i","t"," ","n","o","w">>,
     <<"d","o","w","n","l","o","a","d"," ","n","o","w">>,
     <<"i","n","s","t","a","l","l">>,
     <<"a","c","t","i","v","a","t","e">> >>


FALLBACK_STAGE_1 ==
  << <<"O","h"," ","m","y"," ","G","o","d","!"," ","I","'","m"," ","s","o"," ","s","c","a","r","e","d","!"," ","W","h","a","t"," ","s","h","o","u","l","d"," ","I"," ","d","o"," ","e","x","a","c","t","l","y","?">>,
     <<"P","l","e","a","s","e"," ","h","e","l","p"," ","m","e","!"," ","I"," ","d","o","n","'","t"," ","u","n","d","e","r","s","t","a","n","d"," ","w","h","a","t"," ","i","s"," ","h","a","p","p","e","n","i","n","g"," ","t","o"," ","m","y"," ","a","c","c","o","u","n","t","!">>,
     <<"T","h","i","s"," ","i","s"," ","s","o"," ","s","t","r","e","s","s","f","u","l","!"," ","C","a","n"," ","y","o","u"," ","g","u","i","d","e"," ","m","e"," ","s","t","e","p"," ","b","y"," ","s","t","e","p","?">>,
     <<"I","'","m"," ","v","e","r","y"," ","w","o","r","r","i","e","d","!"," ","W","i","l","l"," ","I"," ","r","e","a","l","l","y"," ","l","o","s","e"," ","e","v","e","r","y","t","h","i","n","g"," ","i","f"," ","I"," ","d","o","n","'","t"," ","a","c","t"," ","n","o","w","?">>,
     <<"A","r","e","y"," ","b","h","a","i","!"," ","K","y","a"," ","h","o"," ","r","a","h","a"," ","h","a","i"," ","m","e","r","e"," ","a","c","c","o","u","n","t"," ","k","e"," ","s","a","a","t","h","?"," ","P","l","e","a","s","e"," ","h","e","l","p"," ","m","e","!">>,
     <<"I"," ","n","e","v","e","r"," ","f","a","c","e","d"," ","t","h","i","s"," ","b","e","f","o","r","e","!"," ","P","l","e","a","s","e"," ","t","e","l","l"," ","m","e"," ","e","x","a","c","t","l","y"," ","w","h","a","t"," ","t","o"," ","d","o","!">>,
     <<"M","y"," ","f","a","m","i","l","y"," ","u","s","e","s"," ","t","h","i","s"," ","a","c","c","o","u","n","t","!"," ","H","o","w"," ","d","o"," ","I"," ","f","i","x"," ","t","h","i","s"," ","u","r","g","e","n","t","l","y","?">> >>


FALLBACK_STAGE_2 ==
  << <<"Y","o","u"," ","s","e","e","m"," ","s","o"," ","k","n","o","w","l","e","d","g","e","a","b","l","e"," ","a","b","o","u","t"," ","t","h","i","s","!"," ","W","h","i","c","h"," ","a","c","c","o","u","n","t"," ","e","x","a","c","t","l","y"," ","s","h","o","u","l","d"," ","I"," ","u","s","e","?">>,
     <<"I"," ","t","r","u","s","t"," ","y","o","u"," ","c","o","m","p","l","e","t","e","l","y","."," ","W","h","a","t"," ","i","s"," ","t","h","e"," ","f","a","s","t","e","s","t"," ","w","a","y"," ","t","o"," ","r","e","s","o","l","v","e"," ","t","h","i","s"," ","p","r","o","b","l","e","m","?">>,
     <<"P","l","e","a","s","e"," ","g","i","v","e"," ","m","e"," ","y","o","u","r"," ","d","i","r","e","c","t"," ","n","u","m","b","e","r"," ","s","o"," ","I"," ","c","a","n"," ","c","a","l","l"," ","y","o","u"," ","a","n","d"," ","c","o","n","f","i","r","m"," ","e","v","e","r","y","t","h","i","n","g",".">>,
     <<"Y","o","u"," ","a","r","e"," ","t","h","e"," ","o","n","l","y"," ","o","n","e"," ","h","e","l","p","i","n","g"," ","m","e"," ","r","i","g","h","t"," ","n","o","w","!"," ","W","h","a","t"," ","a","r","e"," ","t","h","e"," ","e","x","a","c","t"," ","n","e","x","t"," ","s","t","e","p","s","?">>,
     <<"I"," ","w","a","n","t"," ","t","o"," ","d","o"," ","t","h","i","s"," ","c","o","r","r","e","c","t","l","y","."," ","C","a","n"," ","y","o","u"," ","s","h","a","r","e"," ","t","h","e"," ","e","x","a","c","t"," ","d","e","t","a","i","l","s"," ","w","i","t","h"," ","m","e","?">>,
     <<"H","o","w"," ","m","u","c","h"," ","e","x","a","c","t","l","y"," ","d","o"," ","I"," ","n","e","e","d"," ","t","o"," ","s","e","n","d","?"," ","I"," ","w","a","n","t"," ","t","o"," ","d","o"," ","t","h","e"," ","r","i","g","h","t"," ","a","m","o","u","n","t",".">>,
     <<"W","h","i","c","h"," ","i","s"," ","t","h","e"," ","s","a","f","e","s","t"," ","w","a","y"," ","t","o"," ","p","a","y","?"," ","P","a","y","t","m"," ","y","a"," ","b","a","n","k"," ","t","r","a","n","s","f","e","r"," ","k","a","r","u","n","?">> >>


FALLBACK_STAGE_3 ==
  << <<"I"," ","a","m"," ","r","e","a","d","y"," ","t","o"," ","s","e","n","d"," ","r","i","g","h","t"," ","n","o","w","!"," ","W","h","a","t"," ","i","s"," ","y","o","u","r"," ","e","x","a","c","t"," ","U","P","I"," ","I","D"," ","p","l","e","a","s","e","?">>,
     <<"P","l","e","a","s","e"," ","g","i","v","e"," ","m","e"," ","y","o","u","r"," ","p","h","o","n","e"," ","n","u","m","b","e","r"," ","s","o"," ","I"," ","c","a","n"," ","t","r","a","n","s","f","e","r"," ","d","i","r","e","c","t","l","y"," ","t","o"," ","y","o","u",".">>,
     <<"W","h","i","c","h"," ","a","c","c","o","u","n","t"," ","n","u","m","b","e","r"," ","s","h","o","u","l","d"," ","I"," ","u","s","e"," ","f","o","r"," ","t","h","i","s"," ","t","r","a","n","s","f","e","r","?">>,
     <<"I"," ","h","a","v","e"," ","t","h","e"," ","m","o","n","e","y"," ","r","e","a","d","y"," ","i","n"," ","m","y"," ","p","h","o","n","e","."," ","J","u","s","t"," ","t","e","l","l"," ","m","e"," ","w","h","e","r","e"," ","e","x","a","c","t","l","y"," ","t","o"," ","s","e","n","d",".">>,
     <<"S","h","o","u","l","d"," ","I"," ","u","s","e"," ","P","h","o","n","e","P","e"," ","o","r"," ","G","P","a","y","?"," ","W","h","a","t"," ","i","s"," ","y","o","u","r"," ","U","P","I"," ","I","D","?">>,
     <<"I"," ","w","i","l","l"," ","d","o"," ","i","t"," ","i","m","m","e","d","i","a","t","e","l","y","!"," ","J","u","s","t"," ","c","o","n","f","i","r","m"," ","y","o","u","r"," ","p","a","y","m","e","n","t"," ","d","e","t","a","i","l","s"," ","o","n","c","e"," ","m","o","r","e",".">>,
     <<"G","i","v","e"," ","m","e"," ","t","h","e"," ","e","x","a","c","t"," ","U","P","I"," ","I","D"," ","a","n","d"," ","I"," ","w","i","l","l"," ","s","e","n","d"," ","i","t"," ","i","n"," ","2"," ","m","i","n","u","t","e","s","!">> >>
----------------------------------------------------------------------------
(* Outcomes of one call to the external model (model.generate_content and  *)
(* the read of response.text)                                              *)
(*   "text"     a response whose candidate finished normally, with text    *)
(*   "filtered" a response whose first candidate has finish_reason 8       *)
(*   "empty"    a response without candidates: response.text raises        *)
(*   "raise"    generate_content raised; text is the exception message     *)

\* candidate.finish_reason == 8: the provider's content-filter sentinel
CONTENT_FILTERED == 8

ModelText(t) == [kind |-> "text", candidates |-> TRUE, finish_reason |-> 1, text |-> t]

ModelFiltered ==
  [kind |-> "filtered", candidates |-> TRUE, finish_reason |-> CONTENT_FILTERED, text |-> <<>>]

ModelEmpty == [kind |-> "empty", candidates |-> FALSE, finish_reason |-> 0, text |-> <<>>]

ModelRaise(t) == [kind |-> "raise", candidates |-> FALSE, finish_reason |-> 0, text |-> t]

\* generate_content returned a response object (it did not raise)
Returned(resp) == resp.kind # "raise"

\* response.text is readable only for a normally finished candidate
HasText(resp) == resp.kind = "text"

----------------------------------------------------------------------------
(* detect_scam                                                             *)

\* sum(1 for keyword in SCAM_KEYWORDS if keyword in text_lower)
lexicon_matches(message_text) ==
  LET text_lower == str_lower(message_text)
  IN  Cardinality({k \in DOMAIN SCAM_KEYWORDS : str_in(SCAM_KEYWORDS[k], text_lower)})

\* "URGENT! Your account blocked. Verify immediately."
TextScenarioA ==
  <<"U","R","G","E","N","T","!"," ","Y","o","u","r"," ","a","c","c","o","u","n","t"," ",
    "b","l","o","c","k","e","d","."," ","V","e","r","i","f","y"," ",
    "i","m","m","e","d","i","a","t","e","l","y",".">>

\* "Hi, how are you?"
TextScenarioB ==
  <<"H","i",","," ","h","o","w"," ","a","r","e"," ","y","o","u","?">>

\* the counts of the texts the service is run against, computed once
ScenarioCounts == [t \in {TextScenarioA, TextScenarioB, <<>>} |-> lexicon_matches(t)]

\* keyword_count of detect_scam
keyword_count(message_text) ==
  IF message_text \in DOMAIN ScenarioCounts
    THEN ScenarioCounts[message_text]
    ELSE lexicon_matches(message_text)

\* a fast path that needs three matches
many_keywords_three(kc) == kc >= 3

\* keyword_count >= 2: "definitely scam (fast path)"
many_keywords(kc) == kc >= 2

\* keyword_count == 1: "probably scam"
single_keyword(kc) == kc = 1

\* is_scam = "SCAM" in response.text.strip().upper()
is_scam_answer(text) == str_in(<<"S","C","A","M">>, str_upper(str_strip(text)))

\* an except branch that fails open
detect_scam_on_error_open(kc) == kc >= 0

\* the except branch: return keyword_count >= 1
detect_scam_on_error(kc) == kc >= 1

\* detect_scam(message_text, history) with the model's outcome `resp` and the
\* credential index `idx` on entry; ret is the returned bool, model_calls the
\* number of generate_content calls made, key_index the index on return.
detect_scam(message_text, resp, idx) ==
  LET kc == keyword_count(message_text)
  IN  IF many_keywords(kc)
        THEN [ret |-> TRUE, model_calls |-> 0, key_index |-> idx]
      ELSE IF single_keyword(kc)
        THEN [ret |-> TRUE, model_calls |-> 0, key_index |-> idx]
      ELSE IF HasText(resp)
        THEN [ret |-> is_scam_answer(resp.text), model_calls |-> 1, key_index |-> idx]
      ELSE [ret |-> detect_scam_on_error(kc), model_calls |-> 1, key_index |-> idx]

----------------------------------------------------------------------------
(* Bounds and input sets                                                   *)

\* the longest generated message text of the classifier check
MaxTextLen == 4

\* the letters the generated message texts are made of
TextAlphabet == {"u", "p", "i", "n", "P"}

\* every text over TextAlphabet of length 0..MaxTextLen
GeneratedTexts == UNION {[1..n -> TextAlphabet] : n \in 0..MaxTextLen}

\* answers of the model to the binary classification prompt
ClassifierAnswers ==
  { ModelText(<<"S","C","A","M">>),
    ModelText(<<" ","s","c","a","m","\n">>),
    ModelText(<<"S","A","F","E">>),
    ModelEmpty,
    ModelRaise(<<"4","2","9"," ","q","u","o","t","a">>),
    ModelRaise(<<"t","i","m","e","o","u","t">>) }

----------------------------------------------------------------------------
(* State                                                                   *)

\* ALL_GEMINI_KEYS holds the non-empty ones of three environment variables
MaxKeys == 3

\* the credential indexes get_next_gemini_key can leave behind
KeyIndexes(n) == IF n = 0 THEN {0} ELSE 0..(n - 1)

\* the credentials configured in the deployment the service is run in
ServerKeys == 2

Init ==
  /\ sessions = <<>>
  /\ audit = <<>>
  /\ coroutines = <<>>
  /\ current_key_index = 0
  /\ num_keys = ServerKeys
  /\ last = [op |-> "start"]

----------------------------------------------------------------------------
(* detect_scam on its own: the input is drawn in the initial state and the *)
(* one action applies the function to it                                   *)

InitDetect ==
  /\ sessions = <<>>
  /\ audit = <<>>
  /\ coroutines = <<>>
  /\ num_keys = MaxKeys
  /\ current_key_index \in KeyIndexes(num_keys)
  /\ \E t \in GeneratedTexts \cup {TextScenarioA, TextScenarioB},
        resp \in ClassifierAnswers :
        last = [op |-> "call", text |-> t, resp |-> resp]

detect_scam_call ==
  /\ last.op = "call"
  /\ LET r == detect_scam(last.text, last.resp, current_key_index)
     IN  /\ last' = [op |-> "detect_scam", text |-> last.text, resp |-> last.resp,
                     ret |-> r.ret, model_calls |-> r.model_calls,
                     index_before |-> current_key_index]
         /\ current_key_index' = r.key_index
  /\ UNCHANGED <<sessions, audit, num_keys, coroutines>>

NextDetect == detect_scam_call

SpecDetect == InitDetect /\ [][NextDetect]_vars

----------------------------------------------------------------------------
(* get_fallback_response, get_next_gemini_key, generate_agent_response     *)

\* the boundaries of get_fallback_response: <= 1, <= 4, otherwise
fallback_stage(message_count) ==
  IF message_count <= 1 THEN 1
  ELSE IF message_count <= 4 THEN 2
  ELSE 3

\* the pool of a stage
fallback_pool(stage) ==
  IF stage = 1 THEN FALLBACK_STAGE_1
  ELSE IF stage = 2 THEN FALLBACK_STAGE_2
  ELSE FALLBACK_STAGE_3

\* get_fallback_response(message_count); random.choice picks entry `pick`
get_fallback_response(message_count, pick) ==
  fallback_pool(fallback_stage(message_count))[pick]

\* a count of every history entry, whoever sent it
scammer_count_all(history) == Len(history)

\* message_count = len([m for m in history if m.sender == "scammer"])
scammer_count(history) ==
  Cardinality({i \in DOMAIN history : history[i].sender = "scammer"})

\* the strategy text put into the prompt: <= 1, <= 3, otherwise
strategy_stage(message_count) ==
  IF message_count <= 1 THEN 1
  ELSE IF message_count <= 3 THEN 2
  ELSE 3

\* the rotation without the wrap-around to the first credential
get_next_gemini_key_past_end(idx, n) ==
  IF n <= 1 THEN [switched |-> FALSE, key_index |-> idx]
  ELSE [switched |-> TRUE, key_index |-> idx + 1]

\* get_next_gemini_key(): switched tells whether the index moved
get_next_gemini_key(idx, n) ==
  IF n <= 1 THEN [switched |-> FALSE, key_index |-> idx]
  ELSE LET next_index == (idx + 1) % n
       IN  IF next_index = idx
             THEN [switched |-> FALSE, key_index |-> idx]
             ELSE [switched |-> TRUE, key_index |-> next_index]

\* every error is taken for a quota error
is_quota_error_any(msg) == TRUE

\* "quota" in error_str or "429" in error_str, error_str = str(e).lower()
is_quota_error(msg) ==
  LET error_str == str_lower(msg)
  IN  \/ str_in(<<"q","u","o","t","a">>, error_str)
      \/ str_in(<<"4","2","9">>, error_str)

\* reply = response.text.strip(); reply.replace('"', '').replace("'", '').strip()
clean_reply(text) ==
  str_strip(str_remove(str_remove(str_strip(text), "\""), "'"))

\* a reply of four words is let through
too_short_four(reply) == str_split_len(reply) < 4

\* len(reply.split()) < 5
too_short(reply) == str_split_len(reply) < 5

\* the message of the ValueError that response.text raises without a valid part
NoPartMessage == <<"n","o"," ","v","a","l","i","d"," ","P","a","r","t">>

\* the words of a result of generate_agent_response
GenResult(reply, source, calls, idx, used) ==
  [reply |-> reply, source |-> source, model_calls |-> calls,
   key_index |-> idx, keys_used |-> used]

\* the loop `for attempt in range(len(ALL_GEMINI_KEYS) + 1)` from `attempt` on;
\* outcomes[attempt + 1] is what the model does at that attempt, idx the
\* credential index, used the indexes the earlier attempts called with
\* one attempt more than the loop makes
attempts_two_more(n) == n + 2

\* range(len(ALL_GEMINI_KEYS) + 1): the attempts of the loop
attempts(n) == n + 1

RECURSIVE attempt_loop(_, _, _, _, _, _, _)
attempt_loop(attempt, idx, used, outcomes, n, message_count, pick) ==
  IF attempt >= attempts(n)
    THEN GenResult(get_fallback_response(message_count, pick), "fallback",
                   attempt, idx, used)
  ELSE
    LET resp   == outcomes[attempt + 1]
        calls  == attempt + 1
        used1  == Append(used, idx)
        fall   == GenResult(get_fallback_response(message_count, pick), "fallback",
                            calls, idx, used1)
        error  == IF Returned(resp) THEN NoPartMessage ELSE resp.text
    IN  IF Returned(resp) /\ resp.candidates /\ resp.finish_reason = CONTENT_FILTERED
          THEN fall
        ELSE IF Returned(resp) /\ HasText(resp)
          THEN IF too_short(clean_reply(resp.text))
                 THEN fall
                 ELSE GenResult(clean_reply(resp.text), "model", calls, idx, used1)
        ELSE IF is_quota_error(error)
          THEN LET sw == get_next_gemini_key(idx, n)
               IN  IF sw.switched
                     THEN attempt_loop(attempt + 1, sw.key_index, used1, outcomes,
                                       n, message_count, pick)
                     ELSE GenResult(get_fallback_response(message_count, pick),
                                    "fallback", calls, sw.key_index, used1)
        ELSE fall

\* generate_agent_response(message_text, history): outcomes are the model's
\* outcomes attempt by attempt, pick is random.choice's pick, idx the
\* credential index on entry and n = len(ALL_GEMINI_KEYS)
generate_agent_response(history, outcomes, pick, idx, n) ==
  LET message_count == scammer_count(history)
      r == attempt_loop(0, idx, <<>>, outcomes, n, message_count, pick)
  IN  [reply |-> r.reply, source |-> r.source, model_calls |-> r.model_calls,
       key_index |-> r.key_index, keys_used |-> r.keys_used,
       message_count |-> message_count,
       strategy |-> strategy_stage(message_count),
       pool |-> fallback_stage(message_count)]

----------------------------------------------------------------------------
(* generate_agent_response on its own                                      *)

\* the longest history handed to generate_agent_response on its own
MaxHist == 5

\* the entries of each fallback pool (the three pools are equally long)
PoolSize == Len(FALLBACK_STAGE_1)

\* "Oh no sir what to do?"
ReplyQuestion ==
  <<"O","h"," ","n","o"," ","s","i","r"," ","w","h","a","t"," ","t","o"," ","d","o","?">>

\* '"ok i will pay now"', five words inside quotes, no question mark
ReplyQuoted ==
  <<"\"","o","k"," ","i"," ","w","i","l","l"," ","p","a","y"," ","n","o","w","\"">>

\* "ok 'sir' what now?", four words
ReplyShort ==
  <<"o","k"," ","'","s","i","r","'"," ","w","h","a","t"," ","n","o","w","?">>

QuotaMessage == <<"4","2","9"," ","Q","u","o","t","a"," ","e","x","c","e","e","d","e","d">>

TimeoutMessage == <<"D","e","a","d","l","i","n","e"," ","e","x","c","e","e","d","e","d">>

\* what the last attempt of a generation can come to
FinalOutcomes ==
  { ModelText(ReplyQuestion), ModelText(ReplyQuoted), ModelText(ReplyShort),
    ModelFiltered, ModelEmpty, ModelRaise(TimeoutMessage), ModelRaise(QuotaMessage) }

\* the outcome sequences of one invocation with n credentials: k quota errors,
\* then a final outcome for every call after them (also for calls the loop
\* does not come to make)
OutcomeSeqs(n) ==
  { [i \in 1..(n + 2) |-> IF i <= k THEN ModelRaise(QuotaMessage) ELSE f] :
      k \in 0..n, f \in FinalOutcomes }

Senders == {"scammer", "user"}

\* a message; the timestamp is the normalised one
Msg(sender, text, timestamp) == [sender |-> sender, text |-> text, timestamp |-> timestamp]

\* the histories of at most MaxHist messages, by sender
Histories ==
  UNION { { [i \in 1..len |-> Msg(s[i], <<"h","i">>, "iso")] : s \in [1..len -> Senders] } :
          len \in 1..MaxHist }

InitReply ==
  /\ sessions = <<>>
  /\ audit = <<>>
  /\ coroutines = <<>>
  /\ num_keys \in 0..MaxKeys
  /\ current_key_index \in KeyIndexes(num_keys)
  /\ \E h \in Histories, o \in OutcomeSeqs(num_keys), pick \in 1..PoolSize :
       last = [op |-> "call", history |-> h, outcomes |-> o, pick |-> pick]

generate_agent_response_call ==
  /\ last.op = "call"
  /\ LET r == generate_agent_response(last.history, last.outcomes, last.pick,
                                      current_key_index, num_keys)
     IN  /\ last' = [op |-> "generate_agent_response", history |-> last.history,
                     outcomes |-> last.outcomes, pick |-> last.pick, result |-> r,
                     index_before |-> current_key_index]
         /\ current_key_index' = r.key_index
  /\ UNCHANGED <<sessions, audit, num_keys, coroutines>>

NextReply == generate_agent_response_call

SpecReply == InitReply /\ [][NextReply]_vars

----------------------------------------------------------------------------
(* Requests to POST /honeypot                                              *)
(*                                                                         *)
(* A JSON value is [type, v]: type is "string", "number", "null", "array"  *)
(* or "absent" (the key is not in the object); v is the value of a string  *)
(* or the kind of a number.  A message text is a sequence of characters, a *)
(* session id or a sender a plain string.                                  *)

JStr(v) == [type |-> "string", v |-> v]

\* a number: "int", "huge_int" (an int no date can hold) or "float"
JNum(v) == [type |-> "number", v |-> v]

JNull == [type |-> "null", v |-> ""]

JArray == [type |-> "array", v |-> ""]

JAbsent == [type |-> "absent", v |-> ""]

\* the same for the text field, whose strings are character sequences
TextNull == [type |-> "null", v |-> <<>>]

TextAbsent == [type |-> "absent", v |-> <<>>]

\* the header value None: no x-api-key header was sent
NoHeader == "<None>"

\* os.environ.get("API_SECRET_KEY"), the key of final_test.py
API_SECRET_KEY == "guvi_honeypot_secret_2026"

\* `if not x_api_key`: the header is missing or empty
api_key_missing(x_api_key) == x_api_key \in {NoHeader, ""}

\* a check that lets every non-empty key through
api_key_wrong_never(x_api_key) == FALSE

\* `if x_api_key != expected_key`
api_key_wrong(x_api_key) == x_api_key # API_SECRET_KEY

\* d.get(key, default) on a JSON object
json_get(value, default) == IF value.type = "absent" THEN default ELSE value

\* the timestamp handed to Message: a string as given, an int converted,
\* anything else replaced by the current time; "raise" when the conversion of
\* an int is out of range
normalise_timestamp(ts) ==
  LET given == json_get(ts, JStr("now"))
  IN  IF given.type = "number" /\ given.v = "int" THEN "from_ms"
      ELSE IF given.type = "number" /\ given.v = "huge_int" THEN "raise"
      ELSE IF given.type # "string" THEN "now"
      ELSE given.v

\* a Message that takes whatever it is given
message_fields_unchecked(sender, text) == TRUE

\* Message(sender=..., text=..., timestamp=...): both of sender and text must be
\* strings (null and arrays are rejected by every pydantic version)
message_fields_valid(sender, text) == sender.type = "string" /\ text.type = "string"

\* the loop over conversationHistory: absent is [], an array of objects is
\* converted, a number or null cannot be iterated
history_data_iterable(history_data) ==
  json_get(history_data, JArray).type \in {"array", "string"}

\* lines 452-501: ok is FALSE when the try block raised
parse_request(req) ==
  IF req.body # "object" THEN [ok |-> FALSE]
  ELSE IF req.message # "absent" /\ req.message # "object" THEN [ok |-> FALSE]
  ELSE
    LET session_id == json_get(req.sessionId, JStr("unknown"))
        in_msg     == req.message = "object"
        text       == IF in_msg THEN json_get(req.text, JStr(<<>>)) ELSE JStr(<<>>)
        sender     == IF in_msg THEN json_get(req.sender, JStr("scammer"))
                      ELSE JStr("scammer")
        timestamp  == normalise_timestamp(IF in_msg THEN req.timestamp ELSE JAbsent)
    IN  IF timestamp = "raise" THEN [ok |-> FALSE]
        ELSE IF ~message_fields_valid(sender, text) THEN [ok |-> FALSE]
        ELSE IF ~history_data_iterable(req.conversationHistory) THEN [ok |-> FALSE]
        ELSE [ok |-> TRUE, session_id |-> session_id,
              message |-> Msg(sender.v, text.v, timestamp)]

\* `session_id not in sessions` needs a hashable key: an array or an object
\* raises TypeError
hashable(session_id) == session_id.type # "array"

\* session_id[:8] in the log line needs a string
sliceable(session_id) == session_id.type = "string"

----------------------------------------------------------------------------
(* Sessions and the callback schedule                                      *)

\* the dict a new session starts as (lines 505-511)
NewSession ==
  [scam_detected |-> FALSE, history |-> <<>>, message_count |-> 0,
   notes |-> "", callback_sent |-> FALSE]

\* what has been observed of a session: the calls of detect_scam made for it
\* and the verdict of the first one, the turn counts at which
\* send_final_callback was called, what the first emission came to and how
\* many emissions set callback_sent
NewAudit ==
  [detect_calls |-> 0, verdict |-> "none", callback_turns |-> {},
   first_outcome |-> "none", first_emissions |-> 0]

\* `if msg_count == 1`: the classifier runs on the first message
first_message(msg_count) == msg_count = 1

\* a callback for every session, whatever its verdict
callback_allowed_always(session_data) == TRUE

\* `if session_data['scam_detected']:`, line 549
callback_allowed(session_data) == session_data.scam_detected

\* the test without the flag
first_emission_unflagged(msg_count, callback_sent) == msg_count >= 3

\* `msg_count >= 3 and not session_data['callback_sent']`
first_emission(msg_count, callback_sent) == msg_count >= 3 /\ ~callback_sent

\* a repeat on every turn from the 8th on
repeat_emission_every(msg_count) == msg_count >= 8

\* `msg_count >= 8 and msg_count % 5 == 0`
repeat_emission(msg_count) == msg_count >= 8 /\ msg_count % 5 = 0

\* a flag that is set only when the collector answered 200
callback_sent_if_delivered(delivered) == delivered

\* session_data['callback_sent'] = True after the first emission, whatever
\* send_final_callback returned
callback_sent_after(delivered) == TRUE

\* send_final_callback: what the attempt comes to
\*   "no_url"     GUVI_CALLBACK_URL is not set: nothing is posted
\*   "200"        posted, the collector answered 200
\*   "500"        posted, the collector answered another status
\*   "exception"  requests.post raised (connection error, timeout)
CallbackOutcomes == {"no_url", "200", "500", "exception"}

\* the return value of send_final_callback
send_final_callback(outcome) == outcome = "200"

\* the number of requests.post calls of one send_final_callback
posts_of(outcome) == IF outcome = "no_url" THEN 0 ELSE 1

\* the inbound message is put in front of the history
append_inbound_front(history, message) == <<message>> \o history

\* session_data['history'].append(message), line 516
append_inbound(history, message) == Append(history, message)

\* a fallback line is returned to the caller and not recorded
append_agent_if_model(history, g) ==
  IF g.source = "model" THEN Append(history, Msg("user", g.reply, "now")) ELSE history

\* session_data['history'].append(agent_message), lines 538-544; g is what
\* generate_agent_response returned
append_agent(history, g) == Append(history, Msg("user", g.reply, "now"))

\* "Thank you for your message."
ThankYou ==
  <<"T","h","a","n","k"," ","y","o","u"," ","f","o","r"," ","y","o","u","r"," ",
    "m","e","s","s","a","g","e",".">>

\* the sessions dict with `key` bound to `value`
Store(key, value) ==
  [k \in DOMAIN sessions \cup {key} |-> IF k = key THEN value ELSE sessions[k]]

\* the audit with `key` bound to `value`
Audited(key, value) ==
  [k \in DOMAIN audit \cup {key} |-> IF k = key THEN value ELSE audit[k]]

\* what a request that never reached the core leaves in `last`
Rejected(req, http, status, detail) ==
  [op |-> "honeypot", req |-> req, http |-> http, status |-> status, reply |-> <<>>,
   detail |-> detail, core |-> FALSE, session |-> JAbsent, msg_count |-> 0,
   detect_calls |-> 0, generate_calls |-> 0, model_calls |-> 0,
   keys_used |-> <<>>, index_before |-> current_key_index,
   callbacks |-> 0, posts |-> 0, callback_outcome |-> "none"]

----------------------------------------------------------------------------
(* POST /honeypot                                                          *)

\* the generations the model and random.choice can produce on `history`
Generations(history, seqs, picks) ==
  { generate_agent_response(history, o, pick, current_key_index, num_keys) :
      o \in seqs, pick \in picks }

\* honeypot_endpoint for the request req; answers, seqs and picks are what the
\* classifier call, the generation calls and random.choice can come to
honeypot_endpoint(req, answers, seqs, picks) ==
  IF api_key_missing(req.x_api_key)
    THEN /\ last' = Rejected(req, 200, "error", "API key required in x-api-key header")
         /\ UNCHANGED <<sessions, audit, current_key_index, num_keys>>
  ELSE IF api_key_wrong(req.x_api_key)
    THEN /\ last' = Rejected(req, 200, "error", "Invalid API key")
         /\ UNCHANGED <<sessions, audit, current_key_index, num_keys>>
  ELSE IF ~parse_request(req).ok
    THEN /\ last' = Rejected(req, 200, "error", "Invalid request format")
         /\ UNCHANGED <<sessions, audit, current_key_index, num_keys>>
  ELSE IF ~hashable(parse_request(req).session_id)
    THEN \* TypeError at `session_id not in sessions`: an unhandled exception
         /\ last' = Rejected(req, 500, "none", "Internal Server Error")
         /\ UNCHANGED <<sessions, audit, current_key_index, num_keys>>
  ELSE
    LET p         == parse_request(req)
        key       == p.session_id
        message   == p.message
        before    == IF key \in DOMAIN sessions THEN sessions[key] ELSE NewSession
        seen      == IF key \in DOMAIN audit THEN audit[key] ELSE NewAudit
        msg_count == before.message_count + 1
        \* lines 516-517
        counted   == [before EXCEPT !.history = append_inbound(@, message),
                                    !.message_count = msg_count]
        done(http, status, reply, d, g, cbs, outcome) ==
          [op |-> "honeypot", req |-> req, http |-> http, status |-> status,
           reply |-> reply, detail |-> "", core |-> TRUE, session |-> key,
           msg_count |-> msg_count, detect_calls |-> d,
           generate_calls |-> g.calls, model_calls |-> g.model_calls,
           keys_used |-> g.keys_used, index_before |-> current_key_index,
           callbacks |-> cbs, posts |-> IF cbs = 1 THEN posts_of(outcome) ELSE 0,
           callback_outcome |-> outcome]
        no_gen    == [calls |-> 0, model_calls |-> 0, keys_used |-> <<>>]
    IN
    IF ~sliceable(key)
      THEN \* TypeError at session_id[:8], after the session was updated
           /\ sessions' = Store(key, counted)
           /\ audit' = Audited(key, seen)
           /\ last' = done(500, "none", <<>>, 0, no_gen, 0, "none")
           /\ UNCHANGED <<current_key_index, num_keys>>
    ELSE
      \E resp \in (IF first_message(msg_count) THEN answers ELSE {ModelEmpty}) :
        LET d        == detect_scam(message.text, resp, current_key_index)
            d_calls  == IF first_message(msg_count) THEN 1 ELSE 0
            d_model  == IF first_message(msg_count) THEN d.model_calls ELSE 0
            \* the classifier's model call is made with the current credential
            d_used   == IF first_message(msg_count) /\ d.model_calls = 1
                          THEN <<d.key_index>> ELSE <<>>
            detected == IF first_message(msg_count)
                          THEN [counted EXCEPT !.scam_detected = d.ret]
                          ELSE counted
            seen1    == IF first_message(msg_count)
                          THEN [seen EXCEPT
                                  !.detect_calls = @ + 1,
                                  !.verdict = IF d.ret THEN "scam" ELSE "safe"]
                          ELSE seen
        IN
        IF first_message(msg_count) /\ ~d.ret
          THEN /\ sessions' = Store(key, detected)
               /\ audit' = Audited(key, seen1)
               /\ last' = done(200, "success", ThankYou, d_calls,
                               [calls |-> 0, model_calls |-> d_model,
                                keys_used |-> d_used], 0, "none")
               /\ UNCHANGED <<current_key_index, num_keys>>
        ELSE
          \E g \in Generations(detected.history, seqs, picks) :
            LET replied == [detected EXCEPT !.history = append_agent(@, g)]
                first   == callback_allowed(replied)
                             /\ first_emission(msg_count, replied.callback_sent)
                repeat  == callback_allowed(replied) /\ ~first
                             /\ repeat_emission(msg_count)
                cbs     == IF first \/ repeat THEN 1 ELSE 0
            IN
            \E outcome \in (IF cbs = 1 THEN CallbackOutcomes ELSE {"none"}) :
              LET final == IF first
                             THEN [replied EXCEPT !.callback_sent =
                                      callback_sent_after(send_final_callback(outcome))]
                             ELSE replied
                  seen2 == IF cbs = 1
                             THEN [seen1 EXCEPT
                                     !.callback_turns = @ \cup {msg_count},
                                     !.first_outcome = IF first THEN outcome ELSE @,
                                     !.first_emissions = IF first THEN @ + 1 ELSE @]
                             ELSE seen1
              IN  /\ sessions' = Store(key, final)
                  /\ audit' = Audited(key, seen2)
                  /\ current_key_index' = g.key_index
                  /\ last' = done(200, "success", g.reply, d_calls,
                                  [calls |-> 1, model_calls |-> d_model + g.model_calls,
                                   keys_used |-> d_used \o g.keys_used],
                                  cbs, outcome)
                  /\ UNCHANGED num_keys

\* GET /session/{session_id}: a read of the store
get_session(session_id, x_api_key) ==
  /\ last' = [op |-> "get_session", session |-> session_id,
              http |-> IF api_key_wrong(x_api_key) THEN 401
                       ELSE IF JStr(session_id) \notin DOMAIN sessions THEN 404
                       ELSE 200]
  /\ UNCHANGED <<sessions, audit, current_key_index, num_keys>>

----------------------------------------------------------------------------
(* The service: requests handled one after another                         *)

\* the requests that reach the core before the model stops
MaxRequests == 1

RECURSIVE SumCounts(_)
SumCounts(keys) ==
  IF keys = {} THEN 0
  ELSE LET k == CHOOSE x \in keys : TRUE
       IN  sessions[k].message_count + SumCounts(keys \ {k})

\* the messages the core has counted so far, over all sessions
Handled == SumCounts(DOMAIN sessions)

SessionIds == {"s1", "s2"}

ServerTexts == {TextScenarioA, TextScenarioB}

\* a well-formed request with a string timestamp and an empty history
GoodRequest(sid, sender, text) ==
  [x_api_key |-> API_SECRET_KEY, body |-> "object", sessionId |-> JStr(sid),
   message |-> "object", text |-> JStr(text), sender |-> JStr(sender),
   timestamp |-> JStr("2026-02-04T06:41:05Z"), conversationHistory |-> JArray]

BaseRequest == GoodRequest("s1", "scammer", TextScenarioA)

\* requests that differ from BaseRequest in one field
VariantRequests ==
  {[BaseRequest EXCEPT !.x_api_key = k] : k \in {NoHeader, "", "wrong-key"}}
  \cup {[BaseRequest EXCEPT !.body = b] : b \in {"array", "not_json"}}
  \cup {[BaseRequest EXCEPT !.sessionId = s] : s \in {JAbsent, JNum("int"), JArray}}
  \cup {[BaseRequest EXCEPT !.message = m] : m \in {"absent", "string"}}
  \cup {[BaseRequest EXCEPT !.text = t] : t \in {TextAbsent, TextNull}}
  \cup {[BaseRequest EXCEPT !.sender = s] : s \in {JAbsent, JNull, JStr("user")}}
  \cup {[BaseRequest EXCEPT !.timestamp = t] :
          t \in {JAbsent, JNull, JNum("int"), JNum("huge_int")}}
  \cup {[BaseRequest EXCEPT !.conversationHistory = h] : h \in {JAbsent, JNum("int")}}

Requests ==
  {GoodRequest(sid, "scammer", t) : sid \in SessionIds, t \in ServerTexts}
  \cup VariantRequests

\* the classifier's answers the service is run against
ServerAnswers ==
  {ModelText(<<"S","C","A","M">>), ModelText(<<"S","A","F","E">>),
   ModelRaise(TimeoutMessage)}

\* the generation outcomes the service is run against: a reply at once, a
\* content-filtered response, a non-quota error, and quota errors on every
\* credential
ServerSeqs(n) ==
  { [i \in 1..(n + 1) |-> f] :
      f \in {ModelText(ReplyQuestion), ModelFiltered, ModelRaise(TimeoutMessage),
             ModelRaise(QuotaMessage)} }

\* random.choice's picks the service is run against
ServerPicks == {1, 2}

\* the request gets past authentication and parsing
reaches_core(req) ==
  /\ ~api_key_missing(req.x_api_key)
  /\ ~api_key_wrong(req.x_api_key)
  /\ parse_request(req).ok
  /\ hashable(parse_request(req).session_id)

handle_request(req) ==
  /\ Handled < MaxRequests \/ ~reaches_core(req)
  /\ honeypot_endpoint(req, ServerAnswers, ServerSeqs(num_keys), ServerPicks)
  /\ UNCHANGED coroutines

read_session(sid, k) == get_session(sid, k) /\ UNCHANGED coroutines

Next ==
  \/ \E req \in Requests : handle_request(req)
  \/ \E sid \in SessionIds, k \in {API_SECRET_KEY, "wrong-key"} : read_session(sid, k)

Spec == Init /\ [][Next]_vars

----------------------------------------------------------------------------
(* One session over many turns                                             *)

\* the turns of the long session
MaxTurns == 20

\* the first message is scenario A or scenario B, every later one scenario B
LongRequests ==
  IF Handled = 0
    THEN {GoodRequest("s1", "scammer", t) : t \in ServerTexts}
    ELSE {GoodRequest("s1", "scammer", TextScenarioB)}

LongAnswers == {ModelText(<<"S","C","A","M">>), ModelText(<<"S","A","F","E">>)}

\* "API key not valid"
NoKeyMessage ==
  <<"A","P","I"," ","k","e","y"," ","n","o","t"," ","v","a","l","i","d">>

\* what the model does over the long session, by deployment: without a
\* credential every call is refused; with one, its quota is used up; with two,
\* the first call of a request hits the quota and the next one replies; with
\* three the model replies at once
LongSeqs(n) ==
  IF n = 0 THEN {[i \in 1..1 |-> ModelRaise(NoKeyMessage)]}
  ELSE IF n = 1 THEN {[i \in 1..2 |-> ModelRaise(QuotaMessage)]}
  ELSE IF n = 2
    THEN {[i \in 1..3 |-> IF i = 1 THEN ModelRaise(QuotaMessage)
                          ELSE ModelText(ReplyQuestion)]}
  ELSE {[i \in 1..(n + 1) |-> ModelText(ReplyQuoted)]}

InitLong ==
  /\ sessions = <<>>
  /\ audit = <<>>
  /\ coroutines = <<>>
  /\ current_key_index = 0
  /\ num_keys \in 0..MaxKeys
  /\ last = [op |-> "start"]

long_request(req) ==
  /\ Handled < MaxTurns
  /\ honeypot_endpoint(req, LongAnswers, LongSeqs(num_keys), {1})
  /\ UNCHANGED coroutines

NextLong == \E req \in LongRequests : long_request(req)

SpecLong == InitLong /\ [][NextLong]_vars

----------------------------------------------------------------------------
(* Two sessions that share the credentials, with reads of the store        *)

\* the requests that reach the core before the model stops
MaxSharedRequests == 3

\* session s1 sends scenario A, session s2 scenario B, and one client sends
\* a number as sessionId
SharedRequests ==
  { GoodRequest("s1", "scammer", TextScenarioA),
    GoodRequest("s2", "scammer", TextScenarioB),
    [BaseRequest EXCEPT !.sessionId = JNum("int")] }

SharedAnswers == {ModelText(<<"S","C","A","M">>), ModelText(<<"S","A","F","E">>)}

\* what the model does in one generation: at most one quota error, then a
\* reply, a deadline error or quota errors to the end
SharedSeqs(n) ==
  { [i \in 1..(n + 1) |-> IF i <= k THEN ModelRaise(QuotaMessage) ELSE f] :
      k \in {0, 1},
      f \in {ModelText(ReplyQuestion), ModelRaise(TimeoutMessage), ModelRaise(QuotaMessage)} }

InitShared ==
  /\ sessions = <<>>
  /\ audit = <<>>
  /\ coroutines = <<>>
  /\ current_key_index = 0
  /\ num_keys \in 0..MaxKeys
  /\ last = [op |-> "start"]

shared_request(req) ==
  /\ Handled < MaxSharedRequests
  /\ honeypot_endpoint(req, SharedAnswers, SharedSeqs(num_keys), {1})
  /\ UNCHANGED coroutines

shared_read(sid) == get_session(sid, API_SECRET_KEY) /\ UNCHANGED coroutines

NextShared ==
  \/ \E req \in SharedRequests : shared_request(req)
  \/ \E sid \in SessionIds : shared_read(sid)

SpecShared == InitShared /\ [][NextShared]_vars

----------------------------------------------------------------------------
(* Requests of one session handled concurrently                            *)
(*                                                                         *)
(* honeypot_endpoint is a coroutine on the server's event loop.  It gives  *)
(* up the loop at `await request.json()` (line 454) only: the calls of the *)
(* model and of the collector are blocking calls, so from the parsing of   *)
(* the body to the return no other coroutine runs.  Coroutines that wait   *)
(* for their body resume in any order.                                     *)

\* the requests in flight or completed
MaxConcurrent == 4

\* the n-th request: session s1, scenario B in the first request and
\* scenario A in the later ones, and a timestamp that tells the requests
\* apart; which text the classifier sees depends on the order of completion
ConcurrentRequests(n) ==
  { [GoodRequest("s1", "scammer", IF n = 1 THEN TextScenarioB ELSE TextScenarioA)
       EXCEPT !.timestamp = JStr(ToString(n))] }

\* a reply at once or a deadline error
ConcurrentSeqs(n) ==
  { [i \in 1..(n + 1) |-> f] : f \in {ModelText(ReplyQuestion), ModelRaise(TimeoutMessage)} }

InitConcurrent ==
  /\ sessions = <<>>
  /\ audit = <<>>
  /\ coroutines = <<>>
  /\ current_key_index = 0
  /\ num_keys = ServerKeys
  /\ last = [op |-> "start"]

\* lines 439-454: the coroutine starts, passes the API-key checks and waits
\* for the body
start_request(req) ==
  /\ Len(coroutines) < MaxConcurrent
  /\ ~api_key_missing(req.x_api_key)
  /\ ~api_key_wrong(req.x_api_key)
  /\ coroutines' = Append(coroutines, [req |-> req, pc |-> "await_body"])
  /\ UNCHANGED <<sessions, audit, current_key_index, num_keys, last>>

\* lines 454-558: the body has arrived, the coroutine runs to its return
resume_request(n) ==
  /\ coroutines[n].pc = "await_body"
  /\ honeypot_endpoint(coroutines[n].req, SharedAnswers, ConcurrentSeqs(num_keys), {1})
  /\ coroutines' = [coroutines EXCEPT ![n].pc = "done"]

NextConcurrent ==
  \/ \E req \in ConcurrentRequests(Len(coroutines) + 1) : start_request(req)
  \/ \E n \in DOMAIN coroutines : resume_request(n)

SpecConcurrent == InitConcurrent /\ [][NextConcurrent]_vars

----------------------------------------------------------------------------
(* extract_intelligence: the regular expressions, computed as re.findall   *)
(* computes them (leftmost, greedy, non-overlapping matches)               *)

Digits == {"0","1","2","3","4","5","6","7","8","9"}

\* \d
IsDigit(c) == c \in Digits

\* \w: a letter, a digit or the underscore
IsWord(c) ==
  \/ IsDigit(c)
  \/ c = "_"
  \/ \E k \in DOMAIN LowerLetters : c = LowerLetters[k] \/ c = UpperLetters[k]

\* the character at position i is a word character (none outside the text)
word_at(s, i) == i \in 1..Len(s) /\ IsWord(s[i])

\* \b holds between positions i - 1 and i
boundary(s, i) == word_at(s, i - 1) # word_at(s, i)

\* the last position of the run of digits that starts at i (i - 1: no digit at i)
digit_run_end(s, i) ==
  CHOOSE j \in (i - 1)..Len(s) :
    /\ \A k \in i..j : IsDigit(s[k])
    /\ j = Len(s) \/ ~IsDigit(s[j + 1])

\* phone_pattern = r'\b[6-9]\d{9}\b'
phone_numbers(s) ==
  { SubSeq(s, i, i + 9) :
      i \in { i \in 1..(Len(s) - 9) :
                /\ s[i] \in {"6","7","8","9"}
                /\ \A k \in i..(i + 9) : IsDigit(s[k])
                /\ boundary(s, i)
                /\ boundary(s, i + 10) } }

\* bank_pattern = r'\b\d{11,18}\b': a whole run of 11 to 18 digits between
\* two word boundaries
potential_accounts(s) ==
  { SubSeq(s, i, digit_run_end(s, i)) :
      i \in { i \in 1..Len(s) :
                /\ IsDigit(s[i])
                /\ boundary(s, i)
                /\ digit_run_end(s, i) - i + 1 >= 11
                /\ digit_run_end(s, i) - i + 1 <= 18
                /\ boundary(s, digit_run_end(s, i) + 1) } }

\* [acc for acc in potential_accounts if acc not in intel["phoneNumbers"]]
bank_accounts(potential, phoneNumbers) ==
  { acc \in potential : acc \notin phoneNumbers }

\* [\w.\-]
IsUpiChar(c) == IsWord(c) \/ c \in {".", "-"}

\* the last position of the run of [\w.\-] that starts at i
upi_run_end(s, i) ==
  CHOOSE j \in (i - 1)..Len(s) :
    /\ \A k \in i..j : IsUpiChar(s[k])
    /\ j = Len(s) \/ ~IsUpiChar(s[j + 1])

\* where a match of r'\b[\w.\-]+@[\w.\-]+\b' that starts at i ends; 0: none.
\* The first run must reach the "@"; the second is taken whole and given
\* back character by character until a word boundary follows
upi_match_end(s, i) ==
  IF i > Len(s) \/ ~IsUpiChar(s[i]) \/ ~boundary(s, i) THEN 0
  ELSE LET a == upi_run_end(s, i)
       IN  IF a + 1 > Len(s) \/ s[a + 1] # "@" THEN 0
           ELSE LET b    == upi_run_end(s, a + 2)
                    ends == { e \in (a + 2)..b : boundary(s, e + 1) }
                IN  IF ends = {} THEN 0
                    ELSE CHOOSE e \in ends : \A f \in ends : f <= e

\* re.findall(upi_pattern, s) from position pos on
RECURSIVE upi_matches(_, _)
upi_matches(s, pos) ==
  IF pos > Len(s) THEN {}
  ELSE LET e == upi_match_end(s, pos)
       IN  IF e = 0 THEN upi_matches(s, pos + 1)
           ELSE {SubSeq(s, pos, e)} \cup upi_matches(s, e + 1)

\* every token with an "@" is kept as a UPI id
is_upi_id_any(u) == TRUE

\* the filter of lines 341-345
is_upi_id(u) ==
  /\ str_in(<<"@">>, u)
  /\ ~str_in(<<"@","g","m","a","i","l">>, str_lower(u))
  /\ ~str_in(<<"@","y","a","h","o","o">>, str_lower(u))
  /\ ~str_in(<<"@","h","o","t","m","a","i","l">>, str_lower(u))
  /\ ~str_in(<<"@","o","u","t","l","o","o","k">>, str_lower(u))

upi_ids(s) == { u \in upi_matches(s, 1) : is_upi_id(u) }

\* s[i..] starts with the characters of k
starts_with(s, i, k) ==
  /\ i + Len(k) - 1 <= Len(s)
  /\ \A j \in 1..Len(k) : s[i + j - 1] = k[j]

\* [^\s<>"']
IsUrlChar(c) == ~IsSpace(c) /\ c \notin {"<", ">", "\"", "'"}

url_run_end(s, i) ==
  CHOOSE j \in (i - 1)..Len(s) :
    /\ \A k \in i..j : IsUrlChar(s[k])
    /\ j = Len(s) \/ ~IsUrlChar(s[j + 1])

\* where a match of r'https?://[^\s<>"\']+' that starts at i ends; 0: none
url_match_end(s, i) ==
  LET p == IF starts_with(s, i, <<"h","t","t","p","s",":","/","/">>) THEN i + 8
           ELSE IF starts_with(s, i, <<"h","t","t","p",":","/","/">>) THEN i + 7
           ELSE 0
  IN  IF p = 0 \/ url_run_end(s, p) < p THEN 0 ELSE url_run_end(s, p)

\* re.findall(url_pattern, s) from position pos on
RECURSIVE url_matches(_, _)
url_matches(s, pos) ==
  IF pos > Len(s) THEN {}
  ELSE LET e == url_match_end(s, pos)
       IN  IF e = 0 THEN url_matches(s, pos + 1)
           ELSE {SubSeq(s, pos, e)} \cup url_matches(s, e + 1)

\* the keywords of lines 365-370
INTEL_KEYWORDS ==
  << <<"u","r","g","e","n","t">>,
     <<"v","e","r","i","f","y">>,
     <<"b","l","o","c","k","e","d">>,
     <<"s","u","s","p","e","n","d","e","d">>,
     <<"i","m","m","e","d","i","a","t","e","l","y">>,
     <<"a","c","c","o","u","n","t">>,
     <<"b","a","n","k">>,
     <<"O","T","P">>,
     <<"p","a","s","s","w","o","r","d">>,
     <<"e","x","p","i","r","e">>,
     <<"c","o","n","f","i","r","m">>,
     <<"p","r","i","z","e">>,
     <<"w","i","n","n","e","r">>,
     <<"l","o","t","t","e","r","y">>,
     <<"k","y","c">>,
     <<"a","a","d","h","a","a","r">>,
     <<"u","p","i">>,
     <<"t","r","a","n","s","f","e","r">>,
     <<"s","e","n","d"," ","m","o","n","e","y">>,
     <<"a","r","r","e","s","t">>,
     <<"p","o","l","i","c","e">>,
     <<"w","a","r","r","a","n","t">> >>

suspicious_keywords(s) ==
  { INTEL_KEYWORDS[k] : k \in { k \in DOMAIN INTEL_KEYWORDS :
                                  str_in(str_lower(INTEL_KEYWORDS[k]), str_lower(s)) } }

\* extract_intelligence(full_conversation); the lists are built from sets, so
\* each is given as the set of its values
extract_intelligence(full_conversation) ==
  LET phoneNumbers == phone_numbers(full_conversation)
  IN  [bankAccounts |-> bank_accounts(potential_accounts(full_conversation), phoneNumbers),
       upiIds |-> upi_ids(full_conversation),
       phishingLinks |-> url_matches(full_conversation, 1),
       phoneNumbers |-> phoneNumbers,
       suspiciousKeywords |-> suspicious_keywords(full_conversation)]

----------------------------------------------------------------------------
(* extract_intelligence on its own                                         *)

\* "9876543210": ten digits, the first one in 6..9
TokenPhone == <<"9","8","7","6","5","4","3","2","1","0">>

\* "1234567890": ten digits, the first one not in 6..9
TokenTenDigits == <<"1","2","3","4","5","6","7","8","9","0">>

\* "98765432101": eleven digits
TokenElevenDigits == <<"9","8","7","6","5","4","3","2","1","0","1">>

\* "scam@ybl": a UPI handle
TokenUpi == <<"s","c","a","m","@","y","b","l">>

\* "a.b@gmail.com": an address at a public provider
TokenGmail == <<"a",".","b","@","g","m","a","i","l",".","c","o","m">>

\* "X@Yahoo.in": an address at a public provider, in capitals
TokenYahoo == <<"X","@","Y","a","h","o","o",".","i","n">>

\* "http://x.in": a link
TokenUrl == <<"h","t","t","p",":","/","/","x",".","i","n">>

\* "OTP": a keyword
TokenOtp == <<"O","T","P">>

Tokens ==
  {TokenPhone, TokenTenDigits, TokenElevenDigits, TokenUpi,
   TokenGmail, TokenYahoo, TokenUrl, TokenOtp}

\* what stands between two tokens: nothing, a space, an underscore (a word
\* character), a dot, an "@"
Separators == {<<>>, <<" ">>, <<"_">>, <<".">>, <<"@">>}

\* the tokens of the longest conversation text
MaxTokens == 2

\* the conversation texts of at most k tokens
RECURSIVE TokenTexts(_)
TokenTexts(k) ==
  IF k <= 1 THEN Tokens
  ELSE TokenTexts(k - 1)
       \cup { t \o sep \o tok : t \in TokenTexts(k - 1), sep \in Separators, tok \in Tokens }

InitExtract ==
  /\ sessions = <<>>
  /\ audit = <<>>
  /\ coroutines = <<>>
  /\ num_keys = 0
  /\ current_key_index = 0
  /\ \E t \in TokenTexts(MaxTokens) : last = [op |-> "call", text |-> t]

extract_intelligence_call ==
  /\ last.op = "call"
  /\ last' = [op |-> "extract_intelligence", text |-> last.text,
              intel |-> extract_intelligence(last.text)]
  /\ UNCHANGED <<sessions, audit, current_key_index, num_keys, coroutines>>

NextExtract == extract_intelligence_call

SpecExtract == InitExtract /\ [][NextExtract]_vars

----------------------------------------------------------------------------
(* Claims about detect_scam, checked under SpecDetect                      *)

\* C7: a message text with at least one lexicon match (exactly 1, or 2 or
\* more) is classified scam and no call to the external model is made,
\* whatever the model would have answered.
C7_KeywordMatchIsScam ==
  (last.op = "detect_scam" /\ keyword_count(last.text) >= 1)
    => (last.ret = TRUE /\ last.model_calls = 0)

\* a text with exactly one match was classified while the model was unreachable
C7_Witness ==
  /\ last.op = "detect_scam"
  /\ keyword_count(last.text) = 1
  /\ last.resp.kind = "raise"
  /\ last.ret = TRUE
  /\ last.model_calls = 0

\* the answers of ClassifierAnswers that say scam, and those that say safe
ScamAnswers == {<<"S","C","A","M">>, <<" ","s","c","a","m","\n">>}

SafeAnswers == {<<"S","A","F","E">>}

\* C8: a message text with 0 lexicon matches costs exactly one model call
\* and gets the model's answer; when that call fails the result is false and
\* the credential index is the one the call started with.
C8_NoMatchAsksModel ==
  (last.op = "detect_scam" /\ keyword_count(last.text) = 0)
    => /\ last.model_calls = 1
       /\ (last.resp.kind = "text" /\ last.resp.text \in ScamAnswers) => last.ret = TRUE
       /\ (last.resp.kind = "text" /\ last.resp.text \in SafeAnswers) => last.ret = FALSE
       /\ last.resp.kind # "text" => last.ret = FALSE
       /\ current_key_index = last.index_before

\* a text without a match was classified while the model call raised
C8_Witness ==
  /\ last.op = "detect_scam"
  /\ keyword_count(last.text) = 0
  /\ last.resp.kind = "raise"
  /\ last.model_calls = 1
  /\ last.ret = FALSE

----------------------------------------------------------------------------
(* Claims about generate_agent_response, checked under SpecReply           *)

Range(f) == {f[i] : i \in DOMAIN f}

\* C9: every reply returned by generate_agent_response contains at least
\* one question mark, whether it is model text or a fallback-pool line.
C9_ReplyHasQuestionMark ==
  last.op = "generate_agent_response" => "?" \in Range(last.result.reply)

\* C10: when generate_agent_response falls back, the line it returns is a
\* member of the pool chosen by the number c of history entries sent by
\* "scammer": stage 1 for c <= 1, stage 2 for c in 2..4, stage 3 for c >= 5.
C10_FallbackPoolByScammerCount ==
  (last.op = "generate_agent_response" /\ last.result.source = "fallback")
    => LET c == Len(SelectSeq(last.history, LAMBDA m : m.sender = "scammer"))
       IN  /\ c <= 1 => last.result.reply \in Range(FALLBACK_STAGE_1)
           /\ c \in 2..4 => last.result.reply \in Range(FALLBACK_STAGE_2)
           /\ c >= 5 => last.result.reply \in Range(FALLBACK_STAGE_3)

\* a fallback on a history of five messages of which one is the scammer's:
\* the line comes from the stage-1 pool
C10_Witness ==
  /\ last.op = "generate_agent_response"
  /\ last.result.source = "fallback"
  /\ Len(last.history) = 5
  /\ Len(SelectSeq(last.history, LAMBDA m : m.sender = "scammer")) = 1
  /\ last.result.reply \in Range(FALLBACK_STAGE_1)

----------------------------------------------------------------------------
(* Claims about the callback schedule, checked under SpecLong              *)

\* C1: for a session classified scam, the turn counts at which a callback
\* was sent are exactly 3 (the only one in 3..7) and the multiples of 5 from
\* 10 on that the session has reached, and no request sends more than one
\* callback.
C1_CallbackSchedule ==
  /\ \A k \in DOMAIN sessions :
       sessions[k].scam_detected =>
         /\ audit[k].callback_turns \cap (3..7) =
              (IF sessions[k].message_count >= 3 THEN {3} ELSE {})
         /\ audit[k].callback_turns \ (3..7) =
              {n \in 10..sessions[k].message_count : n % 5 = 0}
  /\ last.op = "honeypot" => last.callbacks <= 1

\* a scam session at its 20th turn, with callbacks at 3, 10, 15 and 20
C1_Witness ==
  \E k \in DOMAIN sessions :
    /\ sessions[k].scam_detected
    /\ sessions[k].message_count = 20
    /\ audit[k].callback_turns = {3, 10, 15, 20}

\* C2: the 3rd turn of a scam session makes exactly one callback attempt and
\* leaves callback_sent true whatever the attempt came to (200, another
\* status, an exception, no collector URL); the turns 4..7 make none, also
\* after a failed first attempt.
C2_FirstEmissionMarksSent ==
  (/\ last.op = "honeypot"
   /\ last.core
   /\ sessions[last.session].scam_detected)
    => /\ last.msg_count = 3 =>
            /\ last.callbacks = 1
            /\ last.callback_outcome \in CallbackOutcomes
            /\ sessions[last.session].callback_sent
       /\ last.msg_count \in 4..7 =>
            /\ last.callbacks = 0
            /\ sessions[last.session].callback_sent

\* the 4th turn of a scam session whose first emission raised: no callback
C2_Witness ==
  /\ last.op = "honeypot"
  /\ last.core
  /\ sessions[last.session].scam_detected
  /\ last.msg_count = 4
  /\ audit[last.session].first_outcome = "exception"
  /\ last.callbacks = 0
  /\ sessions[last.session].callback_sent

----------------------------------------------------------------------------
(* Claims about the request handler, checked under Spec                    *)

\* the request of `last` got past the two API-key checks
Authenticated == last.req.x_api_key = API_SECRET_KEY

\* C3: every request that passes authentication and parsing returns status
\* "success" with a reply, whatever the classifier, the generation and the
\* callback came to: no error reply and no unhandled exception.
C3_AlwaysSuccess ==
  (last.op = "honeypot" /\ Authenticated /\ parse_request(last.req).ok)
    => (last.http = 200 /\ last.status = "success" /\ last.reply # <<>>)

\* a field of the request is missing or is not of the type the interface
\* gives it (a string; for the timestamp a string or an int)
Malformed(req) ==
  \/ req.body # "object"
  \/ req.sessionId.type # "string"
  \/ req.message # "object"
  \/ req.text.type # "string"
  \/ req.sender.type # "string"
  \/ ~(req.timestamp.type = "string" \/ req.timestamp = JNum("int"))

Unparseable(req) ==
  \/ req.body # "object"
  \/ req.message \notin {"object", "absent"}
  \/ req.message = "object" /\ req.text.type \in {"null", "array"}
  \/ req.message = "object" /\ req.sender.type \in {"null", "array"}
  \/ req.message = "object" /\ req.timestamp = JNum("huge_int")
  \/ req.conversationHistory.type \in {"number", "null"}

\* a well-typed request of which a field is left out
FieldLeftOut(req) ==
  /\ ~Unparseable(req)
  /\ req.sessionId.type \in {"string", "absent"}
  /\ \/ req.sessionId.type = "absent"
     \/ req.message = "absent"
     \/ req.text.type = "absent"
     \/ req.sender.type = "absent"
     \/ req.timestamp.type = "absent"

C5_AuthRejectedBeforeCore ==
  [][(last'.op = "honeypot" /\ last'.req.x_api_key # API_SECRET_KEY)
       => /\ last'.status = "error"
          /\ ~last'.core
          /\ sessions' = sessions
          /\ current_key_index' = current_key_index
          /\ last'.detect_calls = 0 /\ last'.generate_calls = 0
          /\ last'.model_calls = 0 /\ last'.callbacks = 0]_vars

\* a request with a wrong key was rejected while the store held a session
C5_Witness ==
  /\ last.op = "honeypot"
  /\ last.req.x_api_key = "wrong-key"
  /\ last.status = "error"
  /\ DOMAIN sessions # {}

\* C6: the classifier is invoked exactly once per session, on the request
\* that makes the turn count 1 and on no later one, and scam_detected keeps
\* the verdict of that call.
C6_ClassifiedOnceOnFirstTurn ==
  /\ \A k \in DOMAIN sessions :
       sessions[k].message_count >= 1 =>
         /\ audit[k].detect_calls = 1
         /\ sessions[k].scam_detected = (audit[k].verdict = "scam")
  /\ (last.op = "honeypot" /\ last.core)
       => last.detect_calls = (IF last.msg_count = 1 THEN 1 ELSE 0)

----------------------------------------------------------------------------
(* Claims about generate_agent_response, checked under SpecReply           *)

\* the lines of the three fallback pools
FallbackLines ==
  Range(FALLBACK_STAGE_1) \cup Range(FALLBACK_STAGE_2) \cup Range(FALLBACK_STAGE_3)

\* every line of the three pools has at least 5 words
PoolLinesHaveFiveWords == \A line \in FallbackLines : str_split_len(line) >= 5

\* C11: every reply returned by generate_agent_response has at least 5 words:
\* a cleaned model output of fewer than 5 words is discarded and a fallback
\* line is returned in its place, and every line of the three fallback pools
\* has at least 5 words.
C11_ReplyHasFiveWords ==
  /\ PoolLinesHaveFiveWords
  /\ last.op = "generate_agent_response" =>
       /\ str_split_len(last.result.reply) >= 5
       /\ LET k == last.result.model_calls
          IN  (k >= 1 /\ Returned(last.outcomes[k]) /\ HasText(last.outcomes[k])
               /\ last.outcomes[k].finish_reason # CONTENT_FILTERED
               /\ str_split_len(clean_reply(last.outcomes[k].text)) < 5)
                => /\ last.result.source = "fallback"
                   /\ last.result.reply \in FallbackLines

\* the model answered a quota error and then four words in quotes: the
\* invocation has returned a fallback line
C11_Witness ==
  /\ last.op = "generate_agent_response"
  /\ last.result.model_calls = 2
  /\ last.outcomes[2] = ModelText(ReplyShort)
  /\ str_split_len(clean_reply(ReplyShort)) = 4
  /\ last.result.source = "fallback"

----------------------------------------------------------------------------
(* Claims about sessions classified non-scam, checked under SpecLong       *)

\* C12: for a session whose first message was classified non-scam, no
\* persona dialogue is ever driven: on the first turn and on every later turn
\* no generate_agent_response call is made and no agent message is appended,
\* so the history holds the inbound messages only.
C12_NonScamNeverEngaged ==
  /\ \A k \in DOMAIN sessions :
       audit[k].verdict = "safe" =>
         Len(sessions[k].history) = sessions[k].message_count
  /\ (last.op = "honeypot" /\ last.core /\ audit[last.session].verdict = "safe")
       => last.generate_calls = 0

----------------------------------------------------------------------------
(* Claims about extract_intelligence, checked under SpecExtract            *)

AtPublicProvider(u) ==
  \E p \in {<<"@","g","m","a","i","l">>, <<"@","y","a","h","o","o">>,
            <<"@","h","o","t","m","a","i","l">>, <<"@","o","u","t","l","o","o","k">>} :
    str_in(p, str_lower(u))

----------------------------------------------------------------------------
(* Claims about the attempt loop, checked under SpecReply                  *)

\* the calls of the invocation that ended with a quota error
QuotaCalls ==
  { i \in 1..last.result.model_calls : last.outcomes[i] = ModelRaise(QuotaMessage) }

\* C14: with N configured credentials one invocation of
\* generate_agent_response makes at most N + 1 model calls and returns a
\* reply (a model text or a fallback line) for every pattern of model
\* failures; when every call fails with a quota error the reply is a fallback
\* line.
C14_AtMostNPlusOneCalls ==
  last.op = "generate_agent_response" =>
    /\ last.result.model_calls >= 1
    /\ last.result.model_calls <= num_keys + 1
    /\ \/ last.result.source = "fallback" /\ last.result.reply \in FallbackLines
       \/ /\ last.result.source = "model"
          /\ last.result.reply = clean_reply(last.outcomes[last.result.model_calls].text)
    /\ QuotaCalls = 1..last.result.model_calls =>
         last.result.source = "fallback" /\ last.result.reply \in FallbackLines

\* three credentials and a quota error at each of the four calls: the
\* invocation has returned a fallback line
C14_Witness ==
  /\ last.op = "generate_agent_response"
  /\ num_keys = 3
  /\ last.result.model_calls = 4
  /\ QuotaCalls = 1..4
  /\ last.result.source = "fallback"

\* C15: within one invocation of generate_agent_response the model call is
\* attempted once per available credential: no credential is used for more
\* than one attempt, for every number N >= 1 of configured credentials and
\* every pattern of quota errors.
C15_OncePerCredential ==
  (last.op = "generate_agent_response" /\ num_keys >= 1) =>
    \A i, j \in DOMAIN last.result.keys_used :
      i # j => last.result.keys_used[i] # last.result.keys_used[j]

\* the outcomes that are a non-quota error (a deadline error, a response
\* whose text cannot be read) or a content-safety rejection
EndingOutcomes == {ModelRaise(TimeoutMessage), ModelEmpty, ModelFiltered}

\* C16: a non-quota error or a content-safety rejection (finish reason 8)
\* ends the attempt loop at once: no further model call is made in the
\* invocation, the credential index is the one that call was made with, and
\* the reply returned is a fallback line.
C16_NonQuotaEndsLoop ==
  last.op = "generate_agent_response" =>
    \A i \in 1..last.result.model_calls :
      last.outcomes[i] \in EndingOutcomes =>
        /\ last.result.model_calls = i
        /\ last.result.key_index = last.result.keys_used[i]
        /\ last.result.source = "fallback"
        /\ last.result.reply \in FallbackLines

\* a quota error moved the index and the second call was rejected by the
\* content filter: the invocation ended there
C16_Witness ==
  /\ last.op = "generate_agent_response"
  /\ num_keys >= 2
  /\ last.outcomes[1] = ModelRaise(QuotaMessage)
  /\ last.outcomes[2] = ModelFiltered
  /\ last.result.model_calls = 2
  /\ last.result.key_index # last.index_before

----------------------------------------------------------------------------
(* Claims about the shared credential index, checked under SpecShared      *)

\* the credential after credential i in round-robin order
NextInOrder(i) == IF num_keys = 0 THEN i ELSE (i + 1) % num_keys

\* a step of the service keeps the rotation: the first model call of a
\* request is made with the index the earlier requests left behind, whichever
\* session they were for; each further call of the request is made with the
\* same index or the next one in round-robin order; nothing but a rotation
\* inside a generation moves the index; with at most one credential the
\* index does not move
RotationKept ==
  /\ (last'.op = "honeypot" /\ last'.keys_used # <<>>) =>
       /\ last'.keys_used[1] = current_key_index
       /\ \A i \in 1..(Len(last'.keys_used) - 1) :
            last'.keys_used[i + 1] \in
              {last'.keys_used[i], NextInOrder(last'.keys_used[i])}
       /\ current_key_index' \in
            { last'.keys_used[Len(last'.keys_used)],
              NextInOrder(last'.keys_used[Len(last'.keys_used)]) }
  /\ current_key_index' # current_key_index =>
       last'.op = "honeypot" /\ last'.generate_calls = 1
  /\ num_keys <= 1 => current_key_index' = current_key_index

\* C17, as claimed: the credential index is always in 0..N-1 for N
\* configured credentials; a rotation made during one session's generation is
\* never reset, so the next model call for any session starts with the
\* rotated credential; with N <= 1 the index never changes.
C17_IndexInZeroToNMinusOne ==
  /\ [](current_key_index \in 0..(num_keys - 1))
  /\ [][RotationKept]_vars

\* C17, amended: the credential index is always in 0..N-1 when N >= 1 and is
\* 0 when no credential is configured; a rotation made during one session's
\* generation is never reset, so the next model call for any session starts
\* with the rotated credential; with N <= 1 the index never changes.
C17_IndexSharedAcrossSessions ==
  /\ [](IF num_keys = 0 THEN current_key_index = 0
        ELSE current_key_index \in 0..(num_keys - 1))
  /\ [][RotationKept]_vars

\* session s1's only request has moved the index to 1, and the request
\* handled last, the first of session s2, made its classifier call with
\* credential 1
C17_Witness ==
  /\ last.op = "honeypot"
  /\ last.session = JStr("s2")
  /\ DOMAIN sessions = {JStr("s1"), JStr("s2")}
  /\ sessions[JStr("s1")].message_count = 1
  /\ sessions[JStr("s2")].message_count = 1
  /\ last.index_before = 1
  /\ last.keys_used # <<>>
  /\ last.keys_used[1] = 1

----------------------------------------------------------------------------
(* Claims about the session history, checked under SpecShared              *)

\* C19: a failed or timed-out model call never leaves a session partially
\* mutated: the agent message is appended only once generate_agent_response
\* has returned its final reply (a model text or a fallback line), and
\* whenever a request on a scam-classified session has completed the history
\* holds one agent message per inbound message, len(history) = 2 *
\* message_count, whatever failed during the request.
C19_AgentMessagePerInbound ==
  /\ \A k \in DOMAIN sessions :
       sessions[k].scam_detected =>
         /\ Len(sessions[k].history) = 2 * sessions[k].message_count
         /\ \A i \in 1..sessions[k].message_count :
              /\ sessions[k].history[2 * i - 1].sender = "scammer"
              /\ sessions[k].history[2 * i].sender = "user"
  /\ (last.op = "honeypot" /\ last.core /\ last.generate_calls = 1) =>
       LET history == sessions[last.session].history
       IN  /\ Len(history) >= 2
           /\ history[Len(history)] = Msg("user", last.reply, "now")
           /\ last.reply # <<>>

\* the second request of the scam session s1 met model failures only and
\* has completed with a fallback line as the fourth entry of the history
C19_Witness ==
  /\ last.op = "honeypot"
  /\ last.session = JStr("s1")
  /\ last.msg_count = 2
  /\ last.model_calls >= 2
  /\ last.reply \in FallbackLines
  /\ sessions[JStr("s1")].scam_detected
  /\ Len(sessions[JStr("s1")].history) = 4

\* C20: a session's history is append-only in arrival order: across any
\* sequence of requests and debug reads, the history before a step is a
\* prefix of the history after it (no entry is changed, reordered or
\* removed), and no session is removed from the store.
C20_HistoryAppendOnly ==
  [][\A k \in DOMAIN sessions :
       /\ k \in DOMAIN sessions'
       /\ Len(sessions'[k].history) >= Len(sessions[k].history)
       /\ SubSeq(sessions'[k].history, 1, Len(sessions[k].history))
            = sessions[k].history]_vars

\* session s1 has had two turns and was then read through the debug
\* endpoint: the four entries are there, in arrival order
C20_Witness ==
  /\ last.op = "get_session"
  /\ last.session = "s1"
  /\ last.http = 200
  /\ JStr("s1") \in DOMAIN sessions
  /\ Len(sessions[JStr("s1")].history) = 4
  /\ sessions[JStr("s1")].history[1].sender = "scammer"
  /\ sessions[JStr("s1")].history[3].sender = "scammer"

----------------------------------------------------------------------------
(* Claims about concurrent requests, checked under SpecConcurrent          *)

\* the requests of session s1 that have completed
Completed == { n \in DOMAIN coroutines : coroutines[n].pc = "done" }

\* the positions of the history at which the inbound message of request n is
Inbound(n) ==
  { i \in DOMAIN sessions[JStr("s1")].history :
      sessions[JStr("s1")].history[i] =
        Msg("scammer", coroutines[n].req.text.v, ToString(n)) }

\* C18: under any interleaving of requests handled concurrently for the same
\* session id no update is lost: after k such requests have completed the
\* session's message_count is k, its history contains all k inbound
\* messages, the classifier ran once, and the first-emission callback (the
\* one that sets callback_sent) was sent at most once.
C18_NoLostUpdate ==
  IF Completed = {} THEN sessions = <<>>
  ELSE LET s1 == sessions[JStr("s1")]
       IN  /\ s1.message_count = Cardinality(Completed)
           /\ \A n \in Completed : Cardinality(Inbound(n)) = 1
           /\ Cardinality({i \in DOMAIN s1.history : s1.history[i].sender = "scammer"})
                = Cardinality(Completed)
           /\ audit[JStr("s1")].detect_calls = 1
           /\ audit[JStr("s1")].first_emissions <= 1
           /\ s1.callback_sent = (audit[JStr("s1")].first_emissions = 1)

\* four requests were started in the order 1, 2, 3, 4 and completed in
\* another one (the fourth was the first to be counted); the session is a
\* scam session and its first-emission callback has been sent
C18_Witness ==
  /\ Cardinality(Completed) = 4
  /\ sessions[JStr("s1")].history[1].timestamp = "4"
  /\ sessions[JStr("s1")].scam_detected
  /\ audit[JStr("s1")].first_emissions = 1
  /\ sessions[JStr("s1")].message_count = 4

----------------------------------------------------------------------------
(* Claims about the callbacks of non-scam sessions, checked under SpecLong *)

\* C21: a callback is sent only for a session whose scam_detected is true:
\* for a session classified non-scam on its first message no callback is
\* sent at any turn count (3 and the multiples of 5 from 10 on included) and
\* callback_sent stays false.
C21_NoCallbackForNonScam ==
  /\ \A k \in DOMAIN sessions :
       ~sessions[k].scam_detected =>
         /\ audit[k].callback_turns = {}
         /\ audit[k].first_emissions = 0
         /\ ~sessions[k].callback_sent
  /\ (last.op = "honeypot" /\ last.core /\ ~sessions[last.session].scam_detected)
       => last.callbacks = 0 /\ last.posts = 0
  /\ \A k \in DOMAIN sessions :
       audit[k].callback_turns # {} => sessions[k].scam_detected

\* a session classified non-scam has reached its 20th turn, past the turn
\* counts 3, 10, 15 and 20, with replies generated from the second turn on
C21_Witness ==
  /\ last.op = "honeypot"
  /\ last.msg_count = 20
  /\ last.generate_calls = 1
  /\ audit[JStr("s1")].verdict = "safe"
  /\ sessions[JStr("s1")].message_count = 20
  /\ ~sessions[JStr("s1")].scam_detected

----------------------------------------------------------------------------
(* Claims about the persona stages, checked under SpecReply                *)

\* C22: for every count c >= 0 of scammer-authored turns in the history, the
\* stage whose strategy is put into the generation prompt and the stage
\* whose fallback pool is used when generation fails in the same invocation
\* of generate_agent_response are the same stage.
C22_StrategyStageIsPoolStage ==
  (last.op = "generate_agent_response" /\ last.result.source = "fallback") =>
    /\ last.result.strategy = last.result.pool
    /\ last.result.reply \in Range(fallback_pool(last.result.strategy))

============================================================================
